---- MODULE Spec2Model ----
(***************************************************************************)
(* Model of src/cryptohandler.py: class CryptoHandler, a client of the     *)
(* CoinGecko HTTP API.  Every action is one complete call of the           *)
(* constructor or of a public method; the remote service is the            *)
(* environment and answers each GET with a network failure or with a       *)
(* status code and a body.  Python exceptions are modelled by their class  *)
(* name; "None" means that no exception is raised.                         *)
(***************************************************************************)
EXTENDS Integers, Sequences, FiniteSets, TLC

VARIABLES
    strict_json_error,            \* the installed requests build (see New)
    phase,                        \* "new", "ready" or "ctor_raised"
    attrs,                        \* instance attributes that were assigned
    base_currency,                \* self.base_currency
    supported_currencies,         \* self.supported_currencies
    supported_crypto_currencies,  \* self.supported_crypto_currencies
    method,                       \* the call that ran last
    arg,                          \* its argument ("" when it has none)
    outcome,                      \* "return" or the exception class it raised
    result,                       \* the value it returned
    issued,                       \* URLs of the GETs it issued, in order
    answers                       \* the answers to those GETs, in order

vars == <<strict_json_error, phase, attrs, base_currency, supported_currencies,
          supported_crypto_currencies, method, arg, outcome, result, issued,
          answers>>

cache == <<attrs, base_currency, supported_currencies,
           supported_crypto_currencies>>

----------------------------------------------------------------------------
(* The environment: arguments and answers of the remote service.           *)

CurrencyCodes == {"usd", "eur", "xxx"}

CoinIdArgs == {"bitcoin", "ethereum", "dogecoin"}

Bitcoin == [id |-> "bitcoin", symbol |-> "btc", name |-> "Bitcoin"]

Ethereum == [id |-> "ethereum", symbol |-> "eth", name |-> "Ethereum"]

CurrencyLists == {<<>>, <<"usd", "eur">>, <<"eur", "usd">>, <<"eur">>}

CoinLists == {<<>>, <<Bitcoin>>, <<Bitcoin, Ethereum>>, <<Ethereum, Bitcoin>>}

MarketRow(i, p) ==
    [id |-> i, current_price |-> p, market_cap |-> 1000000, total_volume |-> 500]

MarketLists ==
    {<<>>, <<MarketRow("bitcoin", 50000)>>,
     <<MarketRow("bitcoin", 50000), MarketRow("ethereum", 3000)>>,
     <<MarketRow("ethereum", 3000), MarketRow("bitcoin", 50000)>>}

CoinDetails == {Bitcoin, Ethereum}

\* Stand-ins for "no value" (Python's None), one per shape of body.
NoList == <<"None">>

NoRecord == [id |-> "None", symbol |-> "None", name |-> "None"]

Statuses == {200, 201, 304, 404, 500}

\* An answer to a GET: net = FALSE is a connection-level failure; otherwise
\* a status and a body that is valid JSON decoding to `value`, or is not.
Answers(values, none) ==
    {[net |-> FALSE, status |-> 0, valid |-> FALSE, value |-> none]}
    \cup {[net |-> TRUE, status |-> s, valid |-> FALSE, value |-> none] :
            s \in Statuses}
    \cup {[net |-> TRUE, status |-> s, valid |-> TRUE, value |-> v] :
            s \in Statuses, v \in values}

----------------------------------------------------------------------------
(* Exceptions.                                                             *)

\* Base classes of the exception classes imported from requests.exceptions.
Bases(cls) ==
    CASE cls = "HTTPError" -> {"RequestException"}
      [] cls = "ConnectionError" -> {"RequestException"}
      [] cls = "JSONDecodeError" -> {"RequestException", "ValueError"}
      [] OTHER -> {}

IsInstance(exc, classes) ==
    exc \in classes \/ Bases(exc) \cap classes # {}

\* Instantiating class cls with a single message argument, as every raise
\* statement of the module does.  json's JSONDecodeError takes (msg, doc,
\* pos); requests builds whose JSONDecodeError runs that initialiser raise
\* TypeError for a single argument, older builds accept it.
New(cls) ==
    IF cls = "JSONDecodeError" /\ strict_json_error THEN "TypeError" ELSE cls

\* A try statement's except clauses: the first clause whose classes match
\* the exception runs; without a match the exception propagates.
RECURSIVE Dispatch(_, _)
Dispatch(handlers, exc) ==
    IF handlers = <<>> THEN exc
    ELSE IF IsInstance(exc, Head(handlers).catch)
         THEN Head(handlers).raises
         ELSE Dispatch(Tail(handlers), exc)

----------------------------------------------------------------------------
(* The request primitive.                                                  *)

API == "https://api.coingecko.com/api/v3/"

\* What a call hands back when it raises, and what __init__ returns.
NoValue == <<"None">>

\* Response.raise_for_status of requests: HTTPError for 4xx and 5xx.
raise_for_status(status) ==
    400 =< status /\ status < 600

\* ApiHandlers with the generic clause written first.
ApiHandlersGenericFirst ==
    << [catch |-> {"RequestException"}, raises |-> New("RequestException")],
       [catch |-> {"HTTPError"}, raises |-> New("HTTPError")],
       [catch |-> {"JSONDecodeError"}, raises |-> New("JSONDecodeError")] >>

\* The except clauses of _api_request, each raising a new exception that
\* is built from a single message string.
ApiHandlers ==
    << [catch |-> {"HTTPError"}, raises |-> New("HTTPError")],
       [catch |-> {"JSONDecodeError"}, raises |-> New("JSONDecodeError")],
       [catch |-> {"RequestException"}, raises |-> New("RequestException")] >>

\* _api_request(url) when the service answers resp: requests.get, then
\* raise_for_status, then response.json(); an exception of any of the three
\* goes through the except clauses.
_api_request(url, resp) ==
    LET raised == IF ~resp.net THEN "ConnectionError"
                  ELSE IF raise_for_status(resp.status) THEN "HTTPError"
                  ELSE IF ~resp.valid THEN "JSONDecodeError"
                  ELSE "None"
    IN  IF raised = "None"
        THEN [exc |-> "None", data |-> resp.value]
        ELSE [exc |-> Dispatch(ApiHandlers, raised), data |-> NoValue]

----------------------------------------------------------------------------
(* The public methods.  Each yields the exception it raises ("None" when   *)
(* it returns), the value it returns, and the GETs it issued with their    *)
(* answers.                                                                *)

\* The except clauses that close the try block of every public method.
PublicHandlers ==
    << [catch |-> {"HTTPError"}, raises |-> New("HTTPError")],
       [catch |-> {"JSONDecodeError"}, raises |-> New("JSONDecodeError")],
       [catch |-> {"RequestException"}, raises |-> New("RequestException")] >>

\* A try block that raised exc before it issued any request.
Raised(exc) ==
    [exc |-> Dispatch(PublicHandlers, exc), data |-> NoValue,
     issued |-> <<>>, answers |-> <<>>]

\* A try block that reached its single self._api_request(url=url).
Requested(url, resp) ==
    LET r == _api_request(url, resp)
    IN  [exc |-> IF r.exc = "None" THEN "None"
                 ELSE Dispatch(PublicHandlers, r.exc),
         data |-> r.data, issued |-> <<url>>, answers |-> <<resp>>]

RECURSIVE Reverse(_)
Reverse(list) ==
    IF list = <<>> THEN <<>> ELSE Reverse(Tail(list)) \o <<Head(list)>>

\* get_supported_currencies handing back a reordered list.
get_supported_currencies_reordered(resp) ==
    LET o == Requested(<<API, "simple/supported_vs_currencies">>, resp)
    IN  [o EXCEPT !.data = Reverse(o.data)]

get_supported_currencies(resp) ==
    Requested(<<API, "simple/supported_vs_currencies">>, resp)

\* get_crypto_currencies trying once more after a failed request.
get_crypto_currencies_retry(resp) ==
    LET o == Requested(<<API, "coins/list">>, resp)
    IN  IF o.exc = "None" THEN o
        ELSE [o EXCEPT !.issued = o.issued \o o.issued,
                       !.answers = o.answers \o o.answers]

get_crypto_currencies(resp) ==
    Requested(<<API, "coins/list">>, resp)

\* Python's `x in list`.
Elements(list) ==
    {list[i] : i \in DOMAIN list}

get_crypto_currencies_detailed(currency, resp) ==
    IF "supported_currencies" \notin attrs THEN Raised("AttributeError")
    ELSE IF currency \in Elements(supported_currencies)
         THEN Requested(<<API, "coins/markets?vs_currency=", currency>>, resp)
         ELSE Raised("ValueError")

\* The for loop of _is_valid_crypto_id over the remaining descriptors.
RECURSIVE ScanIds(_, _)
ScanIds(coins, id) ==
    IF coins = <<>> THEN "ValueError"
    ELSE IF Head(coins).id = id THEN "None"
         ELSE ScanIds(Tail(coins), id)

\* _is_valid_crypto_id returning False for an unknown id instead of raising.
_is_valid_crypto_id_returns_false(id) ==
    IF "supported_crypto_currencies" \notin attrs THEN "AttributeError"
    ELSE "None"

\* _is_valid_crypto_id(id): "None" when it returns True, else the exception.
_is_valid_crypto_id(id) ==
    IF "supported_crypto_currencies" \notin attrs THEN "AttributeError"
    ELSE ScanIds(supported_crypto_currencies, id)

get_specific_crypto(id, resp) ==
    LET v == _is_valid_crypto_id(id)
    IN  IF v # "None" THEN Raised(v)
        ELSE Requested(<<API, "coins/", id>>, resp)

----------------------------------------------------------------------------
(* The constructor.                                                        *)

\* The except clauses of __init__: both log and fall through.
InitHandlers ==
    << [catch |-> {"HTTPError", "RequestException"}, raises |-> "None"],
       [catch |-> {"JSONDecodeError"}, raises |-> "None"] >>

\* __init__ with one try statement per fetch: the coin fetch runs whatever
\* became of the currency fetch.
__init__separate_tries(currency, r1, r2) ==
    LET a == get_supported_currencies(r1)
        b == get_crypto_currencies(r2)
        first == a.exc = "None"
        second == b.exc = "None"
        e1 == Dispatch(InitHandlers, a.exc)
    IN  [attrs |-> {"base_currency"}
                   \cup (IF first THEN {"supported_currencies"} ELSE {})
                   \cup (IF second /\ e1 = "None"
                         THEN {"supported_crypto_currencies"} ELSE {}),
         supported_currencies |-> IF first THEN a.data ELSE <<>>,
         supported_crypto_currencies |->
             IF second /\ e1 = "None" THEN b.data ELSE <<>>,
         exc |-> IF e1 # "None" THEN e1 ELSE Dispatch(InitHandlers, b.exc),
         issued |-> IF e1 = "None" THEN a.issued \o b.issued ELSE a.issued,
         answers |-> IF e1 = "None" THEN a.answers \o b.answers ELSE a.answers]

\* __init__(base_currency) when the service answers the currency fetch with
\* r1 and the coin fetch, if it is reached, with r2.
__init__(currency, r1, r2) ==
    LET a == get_supported_currencies(r1)
        b == get_crypto_currencies(r2)
        first == a.exc = "None"
        second == first /\ b.exc = "None"
    IN  [attrs |-> {"base_currency"}
                   \cup (IF first THEN {"supported_currencies"} ELSE {})
                   \cup (IF second THEN {"supported_crypto_currencies"} ELSE {}),
         supported_currencies |-> IF first THEN a.data ELSE <<>>,
         supported_crypto_currencies |-> IF second THEN b.data ELSE <<>>,
         exc |-> Dispatch(InitHandlers, IF first THEN b.exc ELSE a.exc),
         issued |-> IF first THEN a.issued \o b.issued ELSE a.issued,
         answers |-> IF first THEN a.answers \o b.answers ELSE a.answers]

----------------------------------------------------------------------------
(* The state machine.                                                      *)

Init ==
    /\ strict_json_error \in BOOLEAN
    /\ phase = "new"
    /\ attrs = {}
    /\ base_currency = ""
    /\ supported_currencies = <<>>
    /\ supported_crypto_currencies = <<>>
    /\ method = ""
    /\ arg = ""
    /\ outcome = ""
    /\ result = NoValue
    /\ issued = <<>>
    /\ answers = <<>>

\* What a finished call of a public method leaves behind.
Finish(name, a, o) ==
    /\ method' = name
    /\ arg' = a
    /\ outcome' = IF o.exc = "None" THEN "return" ELSE o.exc
    /\ result' = o.data
    /\ issued' = o.issued
    /\ answers' = o.answers
    /\ UNCHANGED <<strict_json_error, phase, cache>>

Construct ==
    /\ phase = "new"
    /\ \E currency \in CurrencyCodes,
          r1 \in Answers(CurrencyLists, NoList),
          r2 \in Answers(CoinLists, NoList) :
          LET o == __init__(currency, r1, r2)
          IN  /\ phase' = IF o.exc = "None" THEN "ready" ELSE "ctor_raised"
              /\ attrs' = o.attrs
              /\ base_currency' = currency
              /\ supported_currencies' = o.supported_currencies
              /\ supported_crypto_currencies' = o.supported_crypto_currencies
              /\ method' = "__init__"
              /\ arg' = currency
              /\ outcome' = IF o.exc = "None" THEN "return" ELSE o.exc
              /\ result' = NoValue
              /\ issued' = o.issued
              /\ answers' = o.answers
              /\ UNCHANGED strict_json_error

\* get_supported_currencies storing what it fetched in the cache.
CallGetSupportedCurrenciesRefresh ==
    /\ phase = "ready"
    /\ \E resp \in Answers(CurrencyLists, NoList) :
          LET o == get_supported_currencies(resp)
          IN  /\ method' = "get_supported_currencies"
              /\ arg' = ""
              /\ outcome' = IF o.exc = "None" THEN "return" ELSE o.exc
              /\ result' = o.data
              /\ issued' = o.issued
              /\ answers' = o.answers
              /\ supported_currencies' =
                     IF o.exc = "None" THEN o.data ELSE supported_currencies
              /\ attrs' = IF o.exc = "None"
                          THEN attrs \cup {"supported_currencies"} ELSE attrs
              /\ UNCHANGED <<strict_json_error, phase, base_currency,
                             supported_crypto_currencies>>

CallGetSupportedCurrencies ==
    /\ phase = "ready"
    /\ \E resp \in Answers(CurrencyLists, NoList) :
          Finish("get_supported_currencies", "", get_supported_currencies(resp))

CallGetCryptoCurrencies ==
    /\ phase = "ready"
    /\ \E resp \in Answers(CoinLists, NoList) :
          Finish("get_crypto_currencies", "", get_crypto_currencies(resp))

CallGetCryptoCurrenciesDetailed ==
    /\ phase = "ready"
    /\ \E currency \in CurrencyCodes, resp \in Answers(MarketLists, NoList) :
          Finish("get_crypto_currencies_detailed", currency,
                 get_crypto_currencies_detailed(currency, resp))

CallGetSpecificCrypto ==
    /\ phase = "ready"
    /\ \E id \in CoinIdArgs, resp \in Answers(CoinDetails, NoRecord) :
          Finish("get_specific_crypto", id, get_specific_crypto(id, resp))

Next ==
    \/ Construct
    \/ CallGetSupportedCurrencies
    \/ CallGetCryptoCurrencies
    \/ CallGetCryptoCurrenciesDetailed
    \/ CallGetSpecificCrypto

Spec == Init /\ [][Next]_vars

----------------------------------------------------------------------------
(* Vocabulary of the properties.                                           *)

PublicMethods ==
    {"get_supported_currencies", "get_crypto_currencies",
     "get_crypto_currencies_detailed", "get_specific_crypto"}

\* The last call was a call of a public method on the constructed client.
PublicCall == phase = "ready" /\ method \in PublicMethods

\* The last call was a public call that issued a request.
Answered == PublicCall /\ issued # <<>>

Is2xx(status) == 200 =< status /\ status < 300

Is4xx5xx(status) == 400 =< status /\ status < 600

CachedIds ==
    {supported_crypto_currencies[i].id : i \in DOMAIN supported_crypto_currencies}

CoinCachePopulated == "supported_crypto_currencies" \in attrs

CurrencyCachePopulated == "supported_currencies" \in attrs

\* The local validation of the last call passed, or the method has none.
ValidationPasses ==
    CASE method = "get_specific_crypto" ->
             CoinCachePopulated /\ arg \in CachedIds
      [] method = "get_crypto_currencies_detailed" ->
             CurrencyCachePopulated /\ arg \in Elements(supported_currencies)
      [] OTHER -> TRUE

\* A request that failed: no connection, a non-2xx status, or a body that
\* is not JSON.
FailedNon2xx(a) == ~a.net \/ ~Is2xx(a.status) \/ ~a.valid

\* A request that failed: no connection, a 4xx or 5xx status, or a body
\* that is not JSON.
Failed4xx5xx(a) == ~a.net \/ Is4xx5xx(a.status) \/ ~a.valid

----------------------------------------------------------------------------
(* Properties.                                                             *)

C2_InvalidBodyRaisesJSONDecodeError ==
    (Answered /\ answers[1].net /\ answers[1].status = 200 /\ ~answers[1].valid)
        => outcome = "JSONDecodeError"

\* C3: with the coin cache populated, get_specific_crypto of an id that no
\* cached descriptor carries raises ValueError and issues no request; the
\* coin-detail request is issued only for an id found in the cache.
C3_UnknownIdRaisesWithoutRequest ==
    (PublicCall /\ method = "get_specific_crypto" /\ CoinCachePopulated)
        => /\ arg \notin CachedIds => (outcome = "ValueError" /\ issued = <<>>)
           /\ issued # <<>> =>
                  (arg \in CachedIds /\ issued = << <<API, "coins/", arg>> >>)

C3_Witness ==
    /\ PublicCall
    /\ method = "get_specific_crypto"
    /\ CoinCachePopulated
    /\ supported_crypto_currencies # <<>>
    /\ arg \notin CachedIds
    /\ outcome = "ValueError"
    /\ issued = <<>>

\* C4: the constructor does not raise when a fetch of the initial lookup
\* sets fails, whether by a network failure, a non-2xx status or an
\* undecodable body, in the currency fetch or in the coin fetch.
C4_ConstructorNeverRaises ==
    (method = "__init__" /\ \E i \in DOMAIN answers : FailedNon2xx(answers[i]))
        => (outcome = "return" /\ phase = "ready")

\* C5: on a client whose coin cache was never assigned, every
\* get_specific_crypto raises ValueError and issues no request.
C5_UnsetCacheRaisesValueError ==
    (PublicCall /\ method = "get_specific_crypto" /\ ~CoinCachePopulated)
        => (outcome = "ValueError" /\ issued = <<>>)

\* C6: get_crypto_currencies_detailed raises ValueError without a request
\* when base_currency is not in the cached currency set; otherwise it issues
\* exactly the markets request and ends with the response or with one of
\* the network and decode failures.
C6_CurrencyValidatedBeforeRequest ==
    (PublicCall /\ method = "get_crypto_currencies_detailed")
        => LET member == /\ CurrencyCachePopulated
                         /\ arg \in Elements(supported_currencies)
           IN  /\ ~member => (outcome = "ValueError" /\ issued = <<>>)
               /\ member =>
                    /\ issued = << <<API, "coins/markets?vs_currency=", arg>> >>
                    /\ outcome \in {"return", "HTTPError", "JSONDecodeError",
                                    "RequestException"}

\* C7: a public call whose request succeeds (2xx status, valid JSON body)
\* returns exactly the value decoded from the body.
C7_Passthrough ==
    (Answered /\ answers[1].net /\ Is2xx(answers[1].status) /\ answers[1].valid)
        => (outcome = "return" /\ result = answers[1].value)

C7_Witness ==
    /\ Answered
    /\ method = "get_crypto_currencies_detailed"
    /\ arg = "usd"
    /\ outcome = "return"
    /\ result = <<MarketRow("bitcoin", 50000)>>

C9_CacheWrittenOnlyAtConstruction ==
    /\ [](attrs \subseteq {"base_currency", "supported_currencies",
                           "supported_crypto_currencies"})
    /\ [][phase = "ready" => UNCHANGED cache]_vars

C9_Witness ==
    /\ PublicCall
    /\ method = "get_supported_currencies"
    /\ outcome = "return"
    /\ CurrencyCachePopulated
    /\ result # supported_currencies

\* C10: the constructor fetches the currencies first and the coins second
\* and stops at the first failure; a populated coin cache implies a
\* populated currency cache, and construction issues at most two requests.
C10_ConstructorOrder ==
    /\ CoinCachePopulated => CurrencyCachePopulated
    /\ method = "__init__" =>
          /\ Len(issued) \in {1, 2}
          /\ issued[1] = <<API, "simple/supported_vs_currencies">>
          /\ Failed4xx5xx(answers[1]) =>
                 (Len(issued) = 1 /\ attrs = {"base_currency"})
          /\ ~Failed4xx5xx(answers[1]) =>
                 /\ Len(issued) = 2
                 /\ issued[2] = <<API, "coins/list">>
                 /\ CurrencyCachePopulated
                 /\ supported_currencies = answers[1].value
                 /\ Failed4xx5xx(answers[2]) => ~CoinCachePopulated
                 /\ ~Failed4xx5xx(answers[2]) =>
                        /\ CoinCachePopulated
                        /\ supported_crypto_currencies = answers[2].value

C10_Witness ==
    /\ method = "__init__"
    /\ Len(issued) = 2
    /\ ~answers[2].net
    /\ attrs = {"base_currency", "supported_currencies"}

====
